---- MODULE Spec2Model ----
(***************************************************************************)
(* Model of solus.py: the LSB steganography codec (LSBCodec, LSBEncoder,   *)
(* LSBDecoder).  An image is a row-major sequence of pixels, a pixel a     *)
(* triple of 8-bit channels.  Python's unbounded integers (the payload as  *)
(* one big integer, the decoder's accumulator) are little-endian bit       *)
(* sequences, so that no width is imposed on them.                         *)
(***************************************************************************)
EXTENDS Integers, Sequences, FiniteSets, TLC

VARIABLES h, w, img, orig, pc, enc, dec

vars == <<h, w, img, orig, pc, enc, dec>>

(* ---------------- program constants (solus.py:16-19, 60-61) ------------ *)
CHAN_SIZE == 8
PROLOG_SIZE == 2
LEN_SIZE == 4
CHAN_CNT == 3
XOR_Y == 56
XOR_N == 0

(* ---------------- bounds of the model ---------------------------------- *)
\* images are h x w with 1 <= h <= w <= MaxSide
MaxSide == 4
\* payloads have at most MaxLen bytes
MaxLen == 2
\* a decoded length of MaxSizeBits or more significant bits is more than any
\* image of the model holds; the cursor is exhausted whatever its exact value
MaxSizeBits == 20

ByteVals == {0, 167}
Backgrounds == {0, 255}
KeyBytes == {<<>>, <<1>>, <<1, 2>>}

\* xor_key: None or a bytes object
NoKey == [given |-> FALSE, k |-> <<>>]
Keys == {NoKey} \cup {[given |-> TRUE, k |-> kb] : kb \in KeyBytes}

Payloads == UNION {[1..n -> ByteVals] : n \in 0..MaxLen}
Shapes == {s \in (1..MaxSide) \X (1..MaxSide) : s[1] <= s[2]}
LsbInputs == 0..(CHAN_SIZE + 1)

(* ---------------- integers as bits -------------------------------------- *)
Min(a, b) == IF a <= b THEN a ELSE b
Max(a, b) == IF a >= b THEN a ELSE b

\* 1 << n
Pow2(n) == 2 ^ n

\* bit i (0 = least significant) of a natural number below 2^31
BitOf(n, i) == IF i >= 31 THEN 0 ELSE (n \div Pow2(i)) % 2

\* the n low bits of x, least significant first
Bits(x, n) == [i \in 1..n |-> BitOf(x, i - 1)]

\* bit i of an integer held as a bit sequence; bits beyond its length are 0
BitAt(v, i) == IF i + 1 <= Len(v) THEN v[i + 1] ELSE 0

RECURSIVE NumRange(_, _, _)
\* the sum of v[i] * 2^(i-1) over lo <= i <= hi
NumRange(v, lo, hi) ==
  IF lo > hi THEN 0
  ELSE IF lo = hi THEN (IF v[lo] = 0 THEN 0 ELSE Pow2(lo - 1))
  ELSE LET mid == (lo + hi) \div 2
       IN  NumRange(v, lo, mid) + NumRange(v, mid + 1, hi)

\* the natural number a bit sequence holds
Num(v) == NumRange(v, 1, Len(v))

\* the channel-sized number whose bit i is b[i], 0 <= i < CHAN_SIZE
Pack(b) ==
  ((b[0] + 2 * b[1]) + (4 * b[2] + 8 * b[3]))
    + ((16 * b[4] + 32 * b[5]) + (64 * b[6] + 128 * b[7]))

\* x & y, x | y, x ^ y on channel-sized operands
BitAnd(x, y) == Pack([i \in 0..(CHAN_SIZE - 1) |-> BitOf(x, i) * BitOf(y, i)])
BitOr(x, y) == Pack([i \in 0..(CHAN_SIZE - 1) |-> Max(BitOf(x, i), BitOf(y, i))])
BitXor(x, y) == Pack([i \in 0..(CHAN_SIZE - 1) |-> (BitOf(x, i) + BitOf(y, i)) % 2])

\* value & m for a big integer value and a channel-sized mask m
LowBits(v, m) == Pack([i \in 0..(CHAN_SIZE - 1) |-> BitAt(v, i) * BitOf(m, i)])

\* value >> n
ShiftRight(v, n) == IF n >= Len(v) THEN <<>> ELSE SubSeq(v, n + 1, Len(v))

\* number of significant bits (int.bit_length)
BitLength(v) ==
  LET ones == {i \in 1..Len(v) : v[i] = 1}
  IN  IF ones = {} THEN 0 ELSE CHOOSE i \in ones : \A j \in ones : j <= i

(* ---------------- LSBCodec static helpers ------------------------------- *)
genmask(size) == Pow2(size)

\* ret |= genmask(i) for every i below size: bit b of the result is set
\* exactly when some genmask(i) of the loop has it set
gen1maskLoop(size) ==
  Pack([b \in 0..(CHAN_SIZE - 1) |->
          IF \E i \in 0..(size - 1) : BitOf(genmask(i), b) = 1 THEN 1 ELSE 0])

\* the masks of every size a channel allows, each computed by the loop
Masks1 == [size \in 0..CHAN_SIZE |-> gen1maskLoop(size)]

gen1mask(size) == Masks1[size]

gen0mask(size) == BitXor(gen1mask(CHAN_SIZE), gen1mask(size))

\* the key's index never advances
xorFirstByte(data, key) ==
  IF Len(key) = 0 THEN <<>>
  ELSE [i \in 1..Len(data) |-> BitXor(data[i], key[1])]

\* zip(data, itertools.cycle(key)): an empty key yields nothing
xor(data, key) ==
  IF Len(key) = 0 THEN <<>>
  ELSE [i \in 1..Len(data) |-> BitXor(data[i], key[((i - 1) % Len(key)) + 1])]

available(size, lsb_cnt) ==
  ((size - PROLOG_SIZE) \div (CHAN_SIZE \div lsb_cnt)) - LEN_SIZE - 1

\* int(hexlify(b), 16): byte 0 is the most significant; the caller handles b""
bytes_to_int(b) ==
  [i \in 1..(CHAN_SIZE * Len(b)) |->
     BitOf(b[Len(b) - ((i - 1) \div CHAN_SIZE)], (i - 1) % CHAN_SIZE)]

\* number of hex digits of "{:x}".format(i).zfill(size * 2)
HexDigits(v, size) ==
  Max(IF BitLength(v) = 0 THEN 1 ELSE (BitLength(v) + 3) \div 4, size * 2)

\* unhexlify raises binascii.Error on an odd number of digits
int_to_bytes_ok(v, size) == HexDigits(v, size) % 2 = 0

int_to_bytes(v, size) ==
  LET n == HexDigits(v, size) \div 2
  IN  [j \in 1..n |->
         Num([b \in 1..CHAN_SIZE |-> BitAt(v, (n - j) * CHAN_SIZE + b - 1)])]

lsb_check_ok(bits) == ~(bits > CHAN_SIZE \/ bits <= 0)


(* ---------------- iter_pixels and the channel loops --------------------- *)
\* img.size: the number of channels of the image
ImgSize(hh, ww) == hh * ww * CHAN_CNT

\* iter_pixels yields the pixels row by row; pixel (r, c) is the
\* (r * w + c + 1)-th element of the sequence, so the generator's state is
\* the number of pixels it has yielded
NumPixels(g) == Len(g)

\* the channel's high bits are not kept
WriteChannelNoMask(c, value, m0, m1) == LowBits(value, m1)

\* line 194: px[c] = (px[c] & m0) | (value & m1)
WriteChannel(c, value, m0, m1) == BitOr(BitAnd(c, m0), LowBits(value, m1))

\* _encode_data. st is the image, the generator's position (the number of
\* pixels it has yielded) and the record of the widths written so far
\* (wrote[p][c] = 0: channel c of pixel p untouched). The loops of lines
\* 189-197 give chunk k (k = 0, 1, ...) to channel k % CHAN_CNT of the
\* (k \div CHAN_CNT)-th pixel after the position, until shifts chunks are
\* written or next(piter) finds no pixel left (ok = FALSE: StopIteration).
EncodeData(st, value, shifts, lsb_cnt) ==
  LET m0 == gen0mask(lsb_cnt)
      m1 == gen1mask(lsb_cnt)
      room == (NumPixels(st.img) - st.pos) * CHAN_CNT
      n == Min(shifts, room)
      used == (n + CHAN_CNT - 1) \div CHAN_CNT
      chunkOf(p, c) == (p - st.pos - 1) * CHAN_CNT + (c - 1)
      taken(p, c) == p > st.pos /\ p <= st.pos + used /\ chunkOf(p, c) < n
  IN  [img |-> [p \in 1..Len(st.img) |-> [c \in 1..CHAN_CNT |->
                  IF taken(p, c)
                  THEN WriteChannel(st.img[p][c],
                                    ShiftRight(value, chunkOf(p, c) * lsb_cnt), m0, m1)
                  ELSE st.img[p][c]]],
       wrote |-> [p \in 1..Len(st.img) |-> [c \in 1..CHAN_CNT |->
                  IF taken(p, c) THEN lsb_cnt ELSE st.wrote[p][c]]],
       pos |-> st.pos + used,
       ok |-> shifts <= room]

\* _decode_data. pos is the generator's position. The loops of lines 145-152
\* read chunk k from channel k % CHAN_CNT of the (k \div CHAN_CNT)-th pixel
\* after the position; value |= chunk << (k * lsb_cnt) makes the chunk's bits
\* the bits k * lsb_cnt .. of the value.
DecodeData(g, pos, shifts, lsb_cnt) ==
  LET m1 == gen1mask(lsb_cnt)
      room == (NumPixels(g) - pos) * CHAN_CNT
      n == Min(shifts, room)
      used == (n + CHAN_CNT - 1) \div CHAN_CNT
  IN  [value |-> [i \in 1..(n * lsb_cnt) |->
                    LET k == (i - 1) \div lsb_cnt
                    IN  BitOf(BitAnd(g[pos + 1 + (k \div CHAN_CNT)][(k % CHAN_CNT) + 1], m1),
                              (i - 1) % lsb_cnt)],
       pos |-> pos + used,
       ok |-> shifts <= room]

(* ---------------- LSBEncoder.encode ------------------------------------- *)
NoWrites(g) == [p \in 1..Len(g) |-> <<0, 0, 0>>]

\* lines 213-221: obfuscate, convert, then prologue, length and payload
EncodeWrites(g, data, lsb_cnt, key) ==
  LET size == Len(data)
      xored == IF key.given THEN xor(data, key.k) ELSE data
      prolog == BitOr(IF key.given THEN XOR_Y ELSE XOR_N, lsb_cnt)
      s0 == [img |-> g, wrote |-> NoWrites(g), pos |-> 0, ok |-> TRUE]
      s1 == EncodeData(s0, Bits(prolog, CHAN_SIZE), PROLOG_SIZE * CHAN_CNT, 1)
      s2 == EncodeData(s1, Bits(size, LEN_SIZE * CHAN_SIZE),
                       (LEN_SIZE * CHAN_SIZE) \div lsb_cnt, lsb_cnt)
      s3 == EncodeData(s2, bytes_to_int(xored),
                       (size * CHAN_SIZE) \div lsb_cnt, lsb_cnt)
  IN  IF Len(xored) = 0
      THEN [img |-> g, wrote |-> NoWrites(g), err |-> "ValueError"]
      ELSE IF ~s1.ok
      THEN [img |-> s1.img, wrote |-> s1.wrote, err |-> "StopIteration"]
      ELSE IF ~s2.ok
      THEN [img |-> s2.img, wrote |-> s2.wrote, err |-> "StopIteration"]
      ELSE [img |-> s3.img, wrote |-> s3.wrote,
            err |-> IF s3.ok THEN "none" ELSE "StopIteration"]

\* the capacity check moved after the first write
EncodeResultLateCheck(g, hh, ww, data, lsb_cnt, key) ==
  IF ~lsb_check_ok(lsb_cnt)
  THEN [img |-> g, wrote |-> NoWrites(g), err |-> "InvalidLSB"]
  ELSE IF Len(data) > available(ImgSize(hh, ww), lsb_cnt)
  THEN LET s1 == EncodeData([img |-> g, wrote |-> NoWrites(g), pos |-> 0, ok |-> TRUE],
                            Bits(BitOr(IF key.given THEN XOR_Y ELSE XOR_N, lsb_cnt), CHAN_SIZE),
                            PROLOG_SIZE * CHAN_CNT, 1)
       IN  [img |-> s1.img, wrote |-> s1.wrote, err |-> "TooMuchData"]
  ELSE EncodeWrites(g, data, lsb_cnt, key)

\* lines 205-221
EncodeResult(g, hh, ww, data, lsb_cnt, key) ==
  IF ~lsb_check_ok(lsb_cnt)
  THEN [img |-> g, wrote |-> NoWrites(g), err |-> "InvalidLSB"]
  ELSE IF Len(data) > available(ImgSize(hh, ww), lsb_cnt)
  THEN [img |-> g, wrote |-> NoWrites(g), err |-> "TooMuchData"]
  ELSE EncodeWrites(g, data, lsb_cnt, key)

(* ---------------- LSBDecoder.decode ------------------------------------- *)
\* only the top bit of the sub-field is looked at
HeaderValidTopBit(xorf) == xorf = XOR_N \/ xorf >= Pow2(5)

\* line 163: the obfuscation sub-field is XOR_Y or XOR_N
HeaderValid(xorf) == xorf \in {XOR_Y, XOR_N}

\* the decoded length as a number; MaxSizeBits significant bits or more stand
\* for a length no image of the model can hold
SizeOf(v) == IF BitLength(v) > MaxSizeBits THEN Pow2(MaxSizeBits) ELSE Num(v)

Failed(e, cause, p) == [err |-> e, cause |-> cause, data |-> <<>>, pos |-> p]

\* lines 158-176
DecodeResult(g, key) ==
  LET m0 == gen0mask(CHAN_CNT)
      m1 == gen1mask(CHAN_CNT)
      d1 == DecodeData(g, 0, PROLOG_SIZE * CHAN_CNT, 1)
      prolog == Num(d1.value)
      xorf == BitAnd(prolog, m0)
      lsb_cnt == BitAnd(prolog, m1)
      d2 == DecodeData(g, d1.pos, (LEN_SIZE * CHAN_SIZE) \div lsb_cnt, lsb_cnt)
      size == SizeOf(d2.value)
      d3 == DecodeData(g, d2.pos, (size * CHAN_SIZE) \div lsb_cnt, lsb_cnt)
      data == int_to_bytes(d3.value, size)
  IN  IF ~d1.ok THEN Failed("StopIteration", "StopIteration", d1.pos)
      ELSE IF ~HeaderValid(xorf) THEN Failed("ValueError", "InvalidXOR", d1.pos)
      ELSE IF ~lsb_check_ok(lsb_cnt) THEN Failed("ValueError", "InvalidLSB", d1.pos)
      ELSE IF xorf = XOR_Y /\ ~key.given THEN Failed("MissingXOR", "MissingXOR", d1.pos)
      ELSE IF ~d2.ok THEN Failed("StopIteration", "StopIteration", d2.pos)
      ELSE IF ~d3.ok THEN Failed("StopIteration", "StopIteration", d3.pos)
      ELSE IF ~int_to_bytes_ok(d3.value, size)
      THEN Failed("binascii.Error", "binascii.Error", d3.pos)
      ELSE [err |-> "none", cause |-> "none",
            data |-> IF xorf = XOR_Y THEN xor(data, key.k) ELSE data,
            pos |-> d3.pos]

(* ---------------- the state machine ------------------------------------- *)
Uniform(hh, ww, bg) == [p \in 1..(hh * ww) |-> <<bg, bg, bg>>]

NoEnc == [called |-> FALSE, data |-> <<>>, lsb_cnt |-> 0, key |-> NoKey,
          err |-> "none", wrote |-> <<>>]
NoDec == [called |-> FALSE, key |-> NoKey, err |-> "none", cause |-> "none",
          data |-> <<>>, pos |-> 0]

\* LSBCodec.__init__: an image has been read
Init ==
  /\ \E s \in Shapes, bg \in Backgrounds :
       /\ h = s[1]
       /\ w = s[2]
       /\ img = Uniform(s[1], s[2], bg)
  /\ orig = img
  /\ pc = "loaded"
  /\ enc = NoEnc
  /\ dec = NoDec

\* main's encode(): one LSBEncoder, one call of encode on the image read
Encode(data, lsb_cnt, key) ==
  /\ pc = "loaded"
  /\ \E r \in {EncodeResult(img, h, w, data, lsb_cnt, key)} :
         /\ img' = r.img
         /\ enc' = [called |-> TRUE, data |-> data, lsb_cnt |-> lsb_cnt, key |-> key,
                    err |-> r.err, wrote |-> r.wrote]
  /\ orig' = img
  /\ pc' = "encoded"
  /\ UNCHANGED <<h, w, dec>>

\* main's decode(): one LSBDecoder, one call of decode, on an image as read
\* or as the encoder left it
Decode(key) ==
  /\ pc \in {"loaded", "encoded"}
  /\ \E r \in {DecodeResult(img, key)} :
         dec' = [called |-> TRUE, key |-> key, err |-> r.err, cause |-> r.cause,
                 data |-> r.data, pos |-> r.pos]
  /\ pc' = "decoded"
  /\ UNCHANGED <<h, w, img, orig, enc>>

Next ==
  \/ \E data \in Payloads, lsb_cnt \in LsbInputs, key \in Keys : Encode(data, lsb_cnt, key)
  \/ \E key \in Keys : Decode(key)

Spec == Init /\ [][Next]_vars

(* ---------------- decoding images as read -------------------------------- *)
\* an image that no encoder wrote: the least significant bits of the first
\* six channels spell the 6-bit number p, the first channel of the length
\* field is lv, every other channel is bg
RawImage(hh, ww, bg, p, lv) ==
  [q \in 1..(hh * ww) |->
     [c \in 1..CHAN_CNT |->
        LET k == (q - 1) * CHAN_CNT + (c - 1)
        IN  IF k < PROLOG_SIZE * CHAN_CNT THEN (bg \div 2) * 2 + BitOf(p, k)
            ELSE IF k = PROLOG_SIZE * CHAN_CNT THEN lv
            ELSE bg]]

FirstLengthChannels == {0, 1, 255}

InitRaw ==
  /\ \E s \in Shapes, bg \in Backgrounds, p \in 0..63, lv \in FirstLengthChannels :
       /\ h = s[1]
       /\ w = s[2]
       /\ img = RawImage(s[1], s[2], bg, p, lv)
  /\ orig = img
  /\ pc = "loaded"
  /\ enc = NoEnc
  /\ dec = NoDec

NextRaw == \E key \in Keys : Decode(key)

SpecRaw == InitRaw /\ [][NextRaw]_vars

(* ---------------- properties --------------------------------------------- *)
Avail == available(ImgSize(h, w), enc.lsb_cnt)

\* a key the spec allows: none, or a non-empty one
UsableKey(key) == key.given => Len(key.k) > 0

NonEmptyKey(key) == key.given /\ Len(key.k) > 0

\* bits 5..3 of the prologue, read from the image itself: the least
\* significant bits of channels 3, 4, 5 in cursor order (the second pixel)
ObfField(g) == (g[2][1] % 2) + 2 * (g[2][2] % 2) + 4 * (g[2][3] % 2)

\* byte i of a key cycled over the payload
Cycled(key, i) == key.k[((i - 1) % Len(key.k)) + 1]

\* C1: round trip. Whenever encode returned normally for a payload within
\* the capacity, a bit width in 1..7 and no key or a non-empty key, decode with
\* the same key returns exactly the payload. (Stated for the encodes that
\* returned normally, so that a failure of encode itself plays no part.)
C1_RoundTrip ==
  (/\ pc = "decoded"
   /\ enc.called
   /\ enc.err = "none"
   /\ enc.lsb_cnt \in 1..7
   /\ Len(enc.data) <= Avail
   /\ UsableKey(enc.key)
   /\ dec.key = enc.key)
  => (dec.err = "none" /\ dec.data = enc.data)

\* C2: capacity boundary, success side. Encoding a payload of exactly
\* available(grid, bw) bytes returns normally. (Stated for non-empty payloads
\* and usable keys, so that the conversion of an empty buffer plays no part.)
C2_ExactCapacitySucceeds ==
  (/\ enc.called
   /\ lsb_check_ok(enc.lsb_cnt)
   /\ Avail >= 0
   /\ Len(enc.data) = Avail
   /\ Len(enc.data) > 0
   /\ UsableKey(enc.key))
  => enc.err = "none"

\* C3: a capacity failure leaves the grid untouched. Whenever encode is
\* called with a valid bit width and more bytes than available(grid, bw), it
\* fails with TooMuchData and every channel keeps its value.
C3_CapacityFailureNoWrite ==
  (/\ enc.called
   /\ lsb_check_ok(enc.lsb_cnt)
   /\ Len(enc.data) > Avail)
  => (enc.err = "TooMuchData" /\ img = orig)

C3_Witness ==
  /\ pc = "encoded"
  /\ enc.err = "TooMuchData"
  /\ Len(enc.data) = 2
  /\ enc.key.given
  /\ orig[1][1] = 255
  /\ Len(img) >= PROLOG_SIZE

\* C4: missing key. Decoding, with no key, a grid that encode produced with a
\* key fails with MissingXOR.
C4_MissingKey ==
  (/\ pc = "decoded"
   /\ enc.called
   /\ enc.err = "none"
   /\ enc.key.given
   /\ ~dec.key.given)
  => dec.err = "MissingXOR"

\* C5: header validation. Decoding a grid whose prologue bits 5..3 are
\* neither 0b111 nor 0b000 fails as an invalid image (InvalidXOR, surfaced as
\* ValueError) with the cursor right after the two prologue pixels: neither
\* the length field nor the payload has been read.
C5_HeaderValidation ==
  (/\ dec.called
   /\ Len(img) >= PROLOG_SIZE
   /\ ObfField(img) \notin {0, 7})
  => (dec.err = "ValueError" /\ dec.cause = "InvalidXOR" /\ dec.pos = PROLOG_SIZE)

C5_Witness ==
  /\ dec.called
  /\ Len(img) > PROLOG_SIZE
  /\ ObfField(img) = 4
  /\ dec.key.given
  /\ dec.cause = "InvalidXOR"

\* C6: zero-length payload. With available(grid, bw) >= 0, encoding the
\* empty buffer returns normally, and decoding the result with the same key
\* returns the empty buffer.
C6_EmptyPayload ==
  (/\ enc.called
   /\ lsb_check_ok(enc.lsb_cnt)
   /\ Avail >= 0
   /\ enc.data = <<>>
   /\ UsableKey(enc.key))
  => /\ enc.err = "none"
     /\ (pc = "decoded" /\ dec.key = enc.key) => (dec.err = "none" /\ dec.data = <<>>)

\* C7: empty key. Encode called with an empty key (and nothing else wrong
\* with the call), and decode called with an empty key on a grid whose
\* prologue signals obfuscation, fail with the invalid-key exception
\* InvalidXOR: they neither return data nor fail otherwise.
C7_EmptyKey ==
  /\ (/\ enc.called
      /\ lsb_check_ok(enc.lsb_cnt)
      /\ Len(enc.data) <= Avail
      /\ enc.key.given
      /\ Len(enc.key.k) = 0)
     => enc.err = "InvalidXOR"
  /\ (/\ dec.called
      /\ dec.key.given
      /\ Len(dec.key.k) = 0
      /\ Len(img) >= PROLOG_SIZE
      /\ ObfField(img) = 7)
     => dec.err = "InvalidXOR"

\* the case of C8: a payload encoded with a non-empty key at a bit width the
\* prologue can carry, then decoded with another non-empty key
WrongKeyCase ==
  /\ pc = "decoded"
  /\ enc.called
  /\ enc.err = "none"
  /\ enc.lsb_cnt \in 1..7
  /\ NonEmptyKey(enc.key)
  /\ NonEmptyKey(dec.key)
  /\ dec.key # enc.key

C9_OnlyLowBits ==
  enc.called =>
    /\ Len(enc.wrote) = Len(img)
    /\ \A p \in 1..Len(img) : \A c \in 1..CHAN_CNT :
         LET wd == enc.wrote[p][c]
         IN  /\ wd = 0 => img[p][c] = orig[p][c]
             /\ wd > 0 => img[p][c] \div Pow2(wd) = orig[p][c] \div Pow2(wd)
             /\ p <= PROLOG_SIZE => wd \in {0, 1}
             /\ p > PROLOG_SIZE => wd \in {0, enc.lsb_cnt}
    /\ enc.err = "none" =>
         /\ \A p \in 1..PROLOG_SIZE : \A c \in 1..CHAN_CNT : enc.wrote[p][c] = 1
         /\ Cardinality({pcn \in (1..Len(img)) \X (1..CHAN_CNT) : enc.wrote[pcn[1]][pcn[2]] > 0})
              = PROLOG_SIZE * CHAN_CNT + ((LEN_SIZE * CHAN_SIZE) \div enc.lsb_cnt)
                  + ((Len(enc.data) * CHAN_SIZE) \div enc.lsb_cnt)
    /\ enc.err \in {"InvalidLSB", "TooMuchData", "ValueError"} => img = orig

C9_Witness ==
  /\ pc = "encoded"
  /\ enc.err = "none"
  /\ enc.lsb_cnt = 3
  /\ Len(enc.data) = 2
  /\ orig[1][1] = 255
  /\ img # orig
  /\ enc.wrote[6][2] = 0
  /\ enc.wrote[7][1] = 3

\* C10: decode fails only with typed conditions. Every decode returns data
\* or fails as an invalid image (InvalidXOR, InvalidLSB) or for a missing
\* key (MissingXOR); it never runs the pixel generator past the last pixel.
C10_TypedFailures ==
  dec.called =>
    \/ dec.err = "none"
    \/ dec.cause \in {"InvalidXOR", "InvalidLSB", "MissingXOR"}

====
